---------------------------- MODULE Spec2Model ----------------------------
(* A model of src/object.rs of pdf_render: the Resolve capability, the     *)
(* reference wrappers PlainRef / Ref<T> / MaybeRef<T>, their construction  *)
(* from a Primitive, and the Object::serialize implementations.            *)
(*                                                                         *)
(* Text is modelled as sequences of character codes (ASCII / Unicode code  *)
(* points), so that formatting and escaping are computed, not assumed.     *)
(* A sink (io::Write) is a buffer plus a failure schedule; every piece a   *)
(* write! hands to the sink is one write that the schedule may fail.       *)
EXTENDS Integers, Sequences, FiniteSets, TLC

VARIABLES pc, op, recv, variant, sink, res, resolver, resolver2, tkind,
          conv, conv2, calls

vars == <<pc, op, recv, variant, sink, res, resolver, resolver2, tkind,
          conv, conv2, calls>>

---------------------------------------------------------------------------
(* Bounds of the model.                                                    *)

\* longest string handed to str::serialize
MaxStrLen == 3
\* most entries of a Dictionary
MaxEntries == 2
\* latest write (counted from 1) at which a sink's failure schedule starts
MaxFailAt == 4
\* most consecutive calls of NoResolve::resolve
MaxCalls == 3

---------------------------------------------------------------------------
(* Characters the code names.                                              *)

\* '\\' (object.rs:174)
Backslash == 92
\* '(' (object.rs:174)
LParen == 40
\* ')' (object.rs:174)
RParen == 41
\* '~' (object.rs:175)
Tilde == 126

Space == <<32>>

---------------------------------------------------------------------------
(* Values.                                                                 *)

\* PlainRef { id: ObjNr, gen: GenNr }
MkPlainRef(id, gen) == [id |-> id, gen |-> gen]

NoRef == MkPlainRef(0, 0)

\* Primitive, one record shape for every variant: tag names the variant,
\* int holds Integer / Boolean (0,1) / Number (in hundredths), str holds
\* Name / String text, ref holds Reference, dict holds Dictionary entries.
MkPrim(tag, int, str, ref, dict) ==
    [tag |-> tag, int |-> int, str |-> str, ref |-> ref, dict |-> dict]

PNull == MkPrim("Null", 0, <<>>, NoRef, <<>>)
PInteger(i) == MkPrim("Integer", i, <<>>, NoRef, <<>>)
PNumber(h) == MkPrim("Number", h, <<>>, NoRef, <<>>)
PBoolean(b) == MkPrim("Boolean", IF b THEN 1 ELSE 0, <<>>, NoRef, <<>>)
PString(s) == MkPrim("String", 0, s, NoRef, <<>>)
PStream == MkPrim("Stream", 0, <<>>, NoRef, <<>>)
PName(s) == MkPrim("Name", 0, s, NoRef, <<>>)
PReference(r) == MkPrim("Reference", 0, <<>>, r, <<>>)
PDictionary(d) == MkPrim("Dictionary", 0, <<>>, NoRef, d)

\* one (key, value) pair of a Dictionary, in iteration order
Entry(k, v) == [key |-> k, val |-> v]

---------------------------------------------------------------------------
(* The sink: io::Write.                                                    *)

\* mode "ok": never fails; "once": write number k fails; "from": every
\* write from number k on fails.
MkSink(mode, k) == [buf |-> <<>>, n |-> 0, mode |-> mode, k |-> k, failed |-> FALSE]

SinkFails(s, n) ==
    \/ s.mode = "once" /\ n = s.k
    \/ s.mode = "from" /\ n >= s.k

\* One write_all of bytes. An empty slice reaches the sink not at all.
Write(s, bytes) ==
    IF bytes = <<>> THEN [sink |-> s, ok |-> TRUE]
    ELSE IF SinkFails(s, s.n + 1)
         THEN [sink |-> [s EXCEPT !.n = s.n + 1, !.failed = TRUE], ok |-> FALSE]
         ELSE [sink |-> [s EXCEPT !.n = s.n + 1, !.buf = s.buf \o bytes], ok |-> TRUE]

\* write!(out, ...): the pieces of the formatted text are written in turn and
\* the first failure ends the call with Err.
RECURSIVE WriteFmt(_, _)
WriteFmt(s, pieces) ==
    IF pieces = <<>> THEN [sink |-> s, ok |-> TRUE]
    ELSE LET w == Write(s, Head(pieces))
         IN  IF w.ok THEN WriteFmt(w.sink, Tail(pieces)) ELSE w

\* io::Result<()> of a serialize call, with the sink as the call left it
Ret(s, r) == [sink |-> s, res |-> r]

FromWrite(w) == Ret(w.sink, IF w.ok THEN "Ok" ELSE "Err")

---------------------------------------------------------------------------
(* Display of the values write! formats with {}.                           *)

RECURSIVE Dec(_)
Dec(n) == IF n < 10 THEN <<48 + n>> ELSE Dec(n \div 10) \o <<48 + (n % 10)>>

Abs(i) == IF i < 0 THEN -i ELSE i

\* i32: sign, then digits
DisplayInt(i) == <<IF i < 0 THEN <<45>> ELSE <<>>, Dec(Abs(i))>>

\* f32 (given in hundredths): sign, integral digits, and a fraction only when
\* there is one, without trailing zeros
DisplayFloat(h) ==
    LET a == Abs(h)
        f == a % 100
        frac == IF f = 0 THEN <<>>
                ELSE IF f % 10 = 0 THEN <<<<46>>, Dec(f \div 10)>>
                ELSE <<<<46>>, <<48 + (f \div 10), 48 + (f % 10)>>>>
    IN  <<IF h < 0 THEN <<45>> ELSE <<>>, Dec(a \div 100)>> \o frac

DisplayBool(b) ==
    IF b = 1 THEN <<<<116, 114, 117, 101>>>> ELSE <<<<102, 97, 108, 115, 101>>>>

\* char: its UTF-8 encoding (one byte below 128, two below 2048)
DisplayChar(c) ==
    IF c < 128 THEN <<c>> ELSE <<192 + (c \div 64), 128 + (c % 64)>>

---------------------------------------------------------------------------
(* Object::serialize.                                                      *)

\* a mutant of PlainRef_pieces: generation and id change places
PlainRef_pieces_Swapped(r) == <<Dec(r.gen), Space, Dec(r.id), <<32, 82>>>>

\* the pieces of write!(out, "{} {} R", self.id, self.gen)
PlainRef_pieces(r) == <<Dec(r.id), Space, Dec(r.gen), <<32, 82>>>>

\* impl Object for PlainRef
PlainRef_serialize(r, s) == FromWrite(WriteFmt(s, PlainRef_pieces(r)))

\* Ref::new: the PhantomData marker has no value to model
Ref_new(inner) == [inner |-> inner]

\* Ref::from_id
Ref_from_id(id) == [inner |-> MkPlainRef(id, 0)]

\* Ref::get_inner
Ref_get_inner(r) == r.inner

\* impl Object for Ref<T>
Ref_serialize(r, s) == PlainRef_serialize(r.inner, s)

\* impl Object for i32 / f32 / bool
i32_serialize(i, s) == FromWrite(WriteFmt(s, DisplayInt(i)))

f32_serialize(h, s) == FromWrite(WriteFmt(s, DisplayFloat(h)))

bool_serialize(b, s) == FromWrite(WriteFmt(s, DisplayBool(b)))

\* a mutant of EscapeArm: ')' is not escaped
EscapeArm_NoRParen(c) == c \in {Backslash, LParen}

\* the first match arm of str::serialize: '\\' | '(' | ')'
EscapeArm(c) == c \in {Backslash, LParen, RParen}

\* a mutant of PanicArm: DEL passes
PanicArm_AboveDel(c) == c > 127

\* the second match arm of str::serialize: c if c > '~'
PanicArm(c) == c > Tilde

\* impl Object for str: the loop over self.chars(), from character i on
RECURSIVE str_loop(_, _, _)
str_loop(str, i, s) ==
    IF i > Len(str) THEN Ret(s, "Ok")
    ELSE LET c == str[i]
             e == IF EscapeArm(c) THEN WriteFmt(s, <<<<Backslash>>>>)
                  ELSE [sink |-> s, ok |-> TRUE]
         IN  IF ~e.ok THEN Ret(e.sink, "Err")
             ELSE IF ~EscapeArm(c) /\ PanicArm(c) THEN Ret(s, "Panic")
             ELSE LET w == WriteFmt(e.sink, <<DisplayChar(c)>>)
                  IN  IF w.ok THEN str_loop(str, i + 1, w.sink)
                      ELSE Ret(w.sink, "Err")

str_serialize(str, s) == str_loop(str, 1, s)

\* impl Object for String
String_serialize(str, s) == str_serialize(str, s)

\* a mutant of Key_pieces: a space follows the key and one precedes the /
Key_pieces_Spaced(key) == <<<<32, 47>>, key, Space>>

\* the pieces of write!(out, "/{} ", key)
Key_pieces(key) == <<<<47>>, key, Space>>

\* impl Object for Dictionary and impl Object for Primitive call each other
RECURSIVE Dictionary_loop(_, _)
RECURSIVE Primitive_serialize(_, _)

\* the for loop of Dictionary::serialize and the closing write. The result
\* of the key's write! is dropped (no ?): the loop goes on whatever it was.
Dictionary_loop(entries, s) ==
    IF entries = <<>> THEN FromWrite(WriteFmt(s, <<<<62, 62>>>>))
    ELSE LET k == WriteFmt(s, Key_pieces(Head(entries).key))
             v == Primitive_serialize(Head(entries).val, k.sink)
         IN  IF v.res = "Ok" THEN Dictionary_loop(Tail(entries), v.sink)
             ELSE v

\* impl Object for Dictionary
Dictionary_serialize(d, s) ==
    LET o == WriteFmt(s, <<<<60, 60>>>>)
    IN  IF o.ok THEN Dictionary_loop(d, o.sink) ELSE Ret(o.sink, "Err")

\* impl Object for Primitive (the Array variant, whose write_list is outside
\* this file, is not among the values of the model)
Primitive_serialize(p, s) ==
    CASE p.tag = "Null" -> FromWrite(WriteFmt(s, <<<<110, 117, 108, 108>>>>))
      [] p.tag = "Integer" -> i32_serialize(p.int, s)
      [] p.tag = "Number" -> f32_serialize(p.int, s)
      [] p.tag = "Boolean" -> bool_serialize(p.int, s)
      [] p.tag = "String" -> Ret(s, "Unimplemented")
      [] p.tag = "Stream" -> Ret(s, "Unimplemented")
      [] p.tag = "Dictionary" -> Dictionary_serialize(p.dict, s)
      [] p.tag = "Reference" -> PlainRef_serialize(p.ref, s)
      [] p.tag = "Name" -> String_serialize(p.str, s)

\* impl Object for MaybeRef<T>, with T = Primitive as the owned object
MaybeRef_serialize(v, p, s) ==
    IF v = "Owned" THEN Primitive_serialize(p, s)
    ELSE Ref_serialize(Ref_new(p.ref), s)

---------------------------------------------------------------------------
(* Resolve.                                                                *)

\* Result<..> of a conversion or a resolve: Ok carries variant ("Primitive",
\* "Ref", "Owned", "Reference"), ref and val; Err carries err.
MkOk(v, r, p) == [ok |-> TRUE, err |-> "", variant |-> v, ref |-> r, val |-> p]

MkErr(e) == [ok |-> FALSE, err |-> e, variant |-> "", ref |-> NoRef, val |-> PNull]

\* a mutant of NoResolve_resolve: object 0 resolves to null
NoResolve_resolve_Null(r) ==
    IF r.id = 0 THEN MkOk("Primitive", NoRef, PNull) ELSE MkErr("FollowReference")

\* impl Resolve for NoResolve
NoResolve_resolve(r) == MkErr("FollowReference")

\* The closures behind the other resolvers: "Store" holds two objects,
\* "Cyclic" holds two objects that refer to each other.
Closure(name, r) ==
    CASE name = "Store" /\ r.id = 1 /\ r.gen = 0 ->
             MkOk("Primitive", NoRef, PInteger(12))
      [] name = "Store" /\ r.id = 2 /\ r.gen = 0 ->
             MkOk("Primitive", NoRef, PNull)
      [] name = "Cyclic" /\ r.id = 1 /\ r.gen = 0 ->
             MkOk("Primitive", NoRef, PReference(MkPlainRef(2, 0)))
      [] name = "Cyclic" /\ r.id = 2 /\ r.gen = 0 ->
             MkOk("Primitive", NoRef, PReference(MkPlainRef(1, 0)))
      [] OTHER -> MkErr("FollowReference")

\* impl<F> Resolve for F where F: Fn(PlainRef) -> Result<Primitive>
Fn_resolve(name, r) == Closure(name, r)

\* resolve.resolve(r) through &Resolve: NO_RESOLVE is &NoResolve {}
Resolve(name, r) ==
    IF name = "NO_RESOLVE" THEN NoResolve_resolve(r) ELSE Fn_resolve(name, r)

Resolvers == {"NO_RESOLVE", "Store", "Cyclic"}

---------------------------------------------------------------------------
(* FromPrimitive.                                                          *)

\* What a from_primitive call did: its result, the calls of T::from_primitive
\* it made (argument and resolver of each) and the resolve calls made in it
\* (resolver and reference of each).
Did(out, tcalls, resolves) == [out |-> out, tcalls |-> tcalls, resolves |-> resolves]

NoCall == Did(MkErr(""), <<>>, <<>>)

\* Primitive::as_reference
Primitive_as_reference(p) ==
    IF p.tag = "Reference" THEN MkOk("PlainRef", p.ref, PNull)
    ELSE MkErr("TypeMismatch")

\* a mutant of Ref_from_primitive: the reference is followed once, to see
\* that its target exists
Ref_from_primitive_Checked(p, resolve) ==
    LET a == Primitive_as_reference(p)
    IN  IF ~a.ok THEN Did(a, <<>>, <<>>)
        ELSE LET t == Resolve(resolve, a.ref)
                 log == <<[resolver |-> resolve, ref |-> a.ref]>>
             IN  IF t.ok THEN Did(MkOk("Ref", Ref_new(a.ref).inner, PNull), <<>>, log)
                 ELSE Did(t, <<>>, log)

\* impl<T> FromPrimitive for Ref<T>: Ok(Ref::new(p.as_reference()?))
Ref_from_primitive(p, resolve) ==
    LET a == Primitive_as_reference(p)
    IN  IF a.ok THEN Did(MkOk("Ref", Ref_new(a.ref).inner, PNull), <<>>, <<>>)
        ELSE Did(a, <<>>, <<>>)

\* T::from_primitive of a target "Deref": the entries of the dictionary that
\* are references are resolved in turn, the first failure is returned
RECURSIVE Deref_loop(_, _, _, _)
Deref_loop(p, entries, resolve, log) ==
    IF entries = <<>> THEN Did(MkOk("T", NoRef, p), <<>>, log)
    ELSE IF Head(entries).val.tag # "Reference"
         THEN Deref_loop(p, Tail(entries), resolve, log)
         ELSE LET r == Head(entries).val.ref
                  t == Resolve(resolve, r)
                  l == Append(log, [resolver |-> resolve, ref |-> r])
              IN  IF t.ok THEN Deref_loop(p, Tail(entries), resolve, l)
                  ELSE Did(t, <<>>, l)

\* T::from_primitive for the type parameter T of MaybeRef<T>: "Int" takes an
\* Integer and never resolves, "Deref" takes a Dictionary and resolves the
\* references in it.
T_from_primitive(tk, p, resolve) ==
    CASE tk = "Int" /\ p.tag = "Integer" -> Did(MkOk("T", NoRef, p), <<>>, <<>>)
      [] tk = "Deref" /\ p.tag = "Dictionary" -> Deref_loop(p, p.dict, resolve, <<>>)
      [] OTHER -> Did(MkErr("TypeMismatch"), <<>>, <<>>)

TKinds == {"Int", "Deref"}

\* a mutant of MaybeRef_from_primitive: a reference is followed and its
\* target converted, as for an inline value
MaybeRef_from_primitive_Eager(tk, p, r) ==
    LET q == IF p.tag = "Reference" THEN Resolve(r, p.ref)
             ELSE MkOk("Primitive", NoRef, p)
        log == IF p.tag = "Reference" THEN <<[resolver |-> r, ref |-> p.ref]>>
               ELSE <<>>
    IN  IF ~q.ok THEN Did(q, <<>>, log)
        ELSE LET t == T_from_primitive(tk, q.val, r)
                 c == <<[p |-> q.val, resolver |-> r]>>
             IN  IF t.out.ok
                 THEN Did(MkOk("Owned", NoRef, t.out.val), c, log \o t.resolves)
                 ELSE Did(t.out, c, log \o t.resolves)

\* a mutant of MaybeRef_from_primitive: T converts with NO_RESOLVE, not
\* with the resolver of the caller
MaybeRef_from_primitive_NoResolve(tk, p, r) ==
    IF p.tag = "Reference"
    THEN Did(MkOk("Reference", Ref_new(p.ref).inner, PNull), <<>>, <<>>)
    ELSE LET t == T_from_primitive(tk, p, "NO_RESOLVE")
             c == <<[p |-> p, resolver |-> "NO_RESOLVE"]>>
         IN  IF t.out.ok THEN Did(MkOk("Owned", NoRef, t.out.val), c, t.resolves)
             ELSE Did(t.out, c, t.resolves)

\* impl<T> FromPrimitive for MaybeRef<T>. In the first arm r is the PlainRef
\* of the pattern; in the second it is the resolver of the caller.
MaybeRef_from_primitive(tk, p, r) ==
    IF p.tag = "Reference"
    THEN Did(MkOk("Reference", Ref_new(p.ref).inner, PNull), <<>>, <<>>)
    ELSE LET t == T_from_primitive(tk, p, r)
             c == <<[p |-> p, resolver |-> r]>>
         IN  IF t.out.ok THEN Did(MkOk("Owned", NoRef, t.out.val), c, t.resolves)
             ELSE Did(t.out, c, t.resolves)

---------------------------------------------------------------------------
(* The inputs the operations are applied to.                               *)

\* a sample of the character classes of str::serialize: a control
\* character (newline), the three escaped characters, a letter, '~', DEL
\* and a non-ASCII character (e with acute accent)
Chars == {10, LParen, RParen, 65, Backslash, Tilde, 127, 233}

\* "A(B)\C"
ExampleStr == <<65, 40, 66, 41, 92, 67>>

Strings == UNION {[1..n -> Chars] : n \in 0..MaxStrLen} \cup {ExampleStr}

\* ids up to the largest integer TLC represents, generations up to 2^16 - 1
PlainRefs ==
    {MkPlainRef(i, g) : i \in {0, 1, 2, 12, 2147483647}, g \in {0, 65535}}

\* "Catalog", "Type", "Pages", "K"
Catalog == <<67, 97, 116, 97, 108, 111, 103>>

KeyType == <<84, 121, 112, 101>>

KeyPages == <<80, 97, 103, 101, 115>>

Keys == {KeyType, KeyPages, <<75>>}

Ints == {0, 12, -7, 2147483647}

\* 0, 1.5, -0.25, 3
Floats == {0, 150, -25, 300}

\* "Catalog", "A(", and a name with a non-ASCII character
Names == {Catalog, <<65, 40>>, <<233>>}

Leaves ==
    {PNull, PStream, PString(<<65>>)}
    \cup {PInteger(i) : i \in Ints}
    \cup {PNumber(h) : h \in Floats}
    \cup {PBoolean(b) : b \in BOOLEAN}
    \cup {PName(n) : n \in Names}
    \cup {PReference(r) : r \in PlainRefs}

\* the values of the entries of a Dictionary: leaves and a nested Dictionary
DictValues ==
    {PNull, PInteger(-7), PNumber(150), PBoolean(TRUE), PName(Catalog),
     PName(<<233>>), PString(<<65>>),
     PReference(MkPlainRef(3, 0)), PReference(MkPlainRef(1, 0)),
     PDictionary(<<Entry(<<75>>, PReference(MkPlainRef(12, 0)))>>)}

\* Dictionaries of n entries, in every order, no key twice
DictsOf(n) ==
    {d \in [1..n -> {Entry(k, v) : k \in Keys, v \in DictValues}] :
        \A i, j \in 1..n : i # j => d[i].key # d[j].key}

Dicts == UNION {DictsOf(n) : n \in 0..MaxEntries}

SmallDicts == UNION {DictsOf(n) : n \in 0..1}

Prims == Leaves \cup {PDictionary(d) : d \in SmallDicts}

Sinks ==
    {MkSink("ok", 0)}
    \cup {MkSink(m, k) : m \in {"once", "from"}, k \in 1..MaxFailAt}

---------------------------------------------------------------------------
(* The operations.                                                         *)

Init ==
    /\ pc = "ready"
    /\ op = "none"
    /\ recv = PNull
    /\ variant = ""
    /\ sink = MkSink("ok", 0)
    /\ res = ""
    /\ resolver = ""
    /\ resolver2 = ""
    /\ tkind = ""
    /\ conv = NoCall
    /\ conv2 = NoCall
    /\ calls = 0

\* a serialize call of receiver p (variant v) that returned r
Serialized(name, p, v, r) ==
    /\ pc' = "done"
    /\ op' = name
    /\ recv' = p
    /\ variant' = v
    /\ sink' = r.sink
    /\ res' = r.res
    /\ UNCHANGED <<resolver, resolver2, tkind, conv, conv2, calls>>

\* a from_primitive or resolve call on p that did c (and c2 with resolver r2)
Converted(name, p, tk, r, r2, c, c2) ==
    /\ pc' = "done"
    /\ op' = name
    /\ recv' = p
    /\ tkind' = tk
    /\ resolver' = r
    /\ resolver2' = r2
    /\ conv' = c
    /\ conv2' = c2
    /\ UNCHANGED <<variant, sink, res>>

SerializePlainRef ==
    /\ pc = "ready"
    /\ \E r \in PlainRefs, s \in Sinks :
          Serialized("PlainRef", PReference(r), "", PlainRef_serialize(r, s))

SerializeRef ==
    /\ pc = "ready"
    /\ \E r \in PlainRefs, s \in Sinks :
          Serialized("Ref", PReference(r), "", Ref_serialize(Ref_new(r), s))

SerializeMaybeRef ==
    /\ pc = "ready"
    /\ \E s \in Sinks :
          \/ \E p \in Prims :
                Serialized("MaybeRef", p, "Owned", MaybeRef_serialize("Owned", p, s))
          \/ \E r \in PlainRefs :
                Serialized("MaybeRef", PReference(r), "Reference",
                           MaybeRef_serialize("Reference", PReference(r), s))

SerializeI32 ==
    /\ pc = "ready"
    /\ \E i \in Ints, s \in Sinks :
          Serialized("i32", PInteger(i), "", i32_serialize(i, s))

SerializeF32 ==
    /\ pc = "ready"
    /\ \E h \in Floats, s \in Sinks :
          Serialized("f32", PNumber(h), "", f32_serialize(h, s))

SerializeBool ==
    /\ pc = "ready"
    /\ \E b \in BOOLEAN, s \in Sinks :
          Serialized("bool", PBoolean(b), "", bool_serialize(PBoolean(b).int, s))

SerializeDictionary ==
    /\ pc = "ready"
    /\ \E d \in Dicts, s \in Sinks :
          Serialized("Dictionary", PDictionary(d), "", Dictionary_serialize(d, s))

SerializeStr ==
    /\ pc = "ready"
    /\ \E str \in Strings, s \in Sinks :
          Serialized("str", PString(str), "", str_serialize(str, s))

SerializeString ==
    /\ pc = "ready"
    /\ \E str \in Strings, s \in Sinks :
          Serialized("String", PString(str), "", String_serialize(str, s))

SerializePrimitive ==
    /\ pc = "ready"
    /\ \E p \in Prims, s \in Sinks :
          Serialized("Primitive", p, "", Primitive_serialize(p, s))

\* Ref::<T>::from_primitive, called on the same Primitive with two resolvers
RefFromPrimitive ==
    /\ pc = "ready"
    /\ \E p \in Prims, r \in Resolvers, r2 \in Resolvers :
          Converted("Ref_from", p, "", r, r2,
                    Ref_from_primitive(p, r), Ref_from_primitive(p, r2))
    /\ UNCHANGED calls

MaybeRefFromPrimitive ==
    /\ pc = "ready"
    /\ \E p \in Prims \cup {PDictionary(d) : d \in Dicts},
          tk \in TKinds, r \in Resolvers :
          Converted("MaybeRef_from", p, tk, r, "",
                    MaybeRef_from_primitive(tk, p, r), NoCall)
    /\ UNCHANGED calls

\* NO_RESOLVE.resolve(r), any number of times in a row
NoResolveResolve ==
    /\ pc = "ready" \/ op = "NoResolve"
    /\ calls < MaxCalls
    /\ \E r \in PlainRefs :
          Converted("NoResolve", PReference(r), "", "NO_RESOLVE", "",
                    Did(Resolve("NO_RESOLVE", r), <<>>, <<>>), NoCall)
    /\ calls' = calls + 1

Next ==
    \/ SerializePlainRef
    \/ SerializeRef
    \/ SerializeMaybeRef
    \/ SerializeI32
    \/ SerializeF32
    \/ SerializeBool
    \/ SerializeDictionary
    \/ SerializeStr
    \/ SerializeString
    \/ SerializePrimitive
    \/ RefFromPrimitive
    \/ MaybeRefFromPrimitive
    \/ NoResolveResolve

Spec == Init /\ [][Next]_vars

---------------------------------------------------------------------------
(* Properties.                                                             *)

NeverFailing == sink.mode = "ok"

Returned(name) == pc = "done" /\ op = name

\* S(v): what serializing v alone writes to a sink that never fails
S(v) == Primitive_serialize(v, MkSink("ok", 0)).sink.buf

\* /k1 S(v1)<sep>/k2 S(v2)<sep>.../kn S(vn)
RECURSIVE EntriesText(_, _)
EntriesText(d, sep) ==
    IF d = <<>> THEN <<>>
    ELSE <<47>> \o Head(d).key \o <<32>> \o S(Head(d).val)
         \o (IF Len(d) > 1 THEN sep ELSE <<>>) \o EntriesText(Tail(d), sep)

DictText(d, sep) == <<60, 60>> \o EntriesText(d, sep) \o <<62, 62>>

\* C1 as stated: a Dictionary::serialize that returns Ok on a sink that never
\* fails has written <<, the entries /k S(v) in stored order with a single
\* space between consecutive entries, and >>.
C1_SpaceSeparated ==
    (Returned("Dictionary") /\ NeverFailing /\ res = "Ok")
        => sink.buf = DictText(recv.dict, <<32>>)

\* C1 as amended: a Dictionary::serialize that returns Ok on a sink that never
\* fails has written <<, then for each entry in stored order / the key, one
\* space and the value's own serialization, with nothing between one entry's
\* value and the next entry's /, and then >>.
C1_Dictionary ==
    (Returned("Dictionary") /\ NeverFailing /\ res = "Ok")
        => sink.buf = DictText(recv.dict, <<>>)

C1_Witness ==
    /\ Returned("Dictionary") /\ NeverFailing /\ res = "Ok"
    /\ Len(recv.dict) = 2
    /\ recv.dict[1] = Entry(KeyType, PName(Catalog))
    /\ recv.dict[2] = Entry(KeyPages, PReference(MkPlainRef(3, 0)))

Printable(c) == c >= 32 /\ c <= 126

Special(c) == c \in {92, 40, 41}

\* the number of \, ( and ) among the first i characters of str
Specials(str, i) == Cardinality({j \in 1..i : Special(str[j])})

\* the place in the output of the i-th character of str
Place(str, i) == i + Specials(str, i)

\* C2: for a string of printable ASCII characters and a sink that never fails,
\* str::serialize and String::serialize return Ok having written the
\* characters in order, each \, ( or ) preceded by exactly one \ and nothing
\* else added: the output is as long as the input plus the number of \, (, ),
\* and A(B)\C gives A\(B\)\\C.
C2_Escaping ==
    ((Returned("str") \/ Returned("String")) /\ NeverFailing
        /\ \A i \in 1..Len(recv.str) : Printable(recv.str[i]))
    => /\ res = "Ok"
       /\ Len(sink.buf) = Len(recv.str) + Specials(recv.str, Len(recv.str))
       /\ \A i \in 1..Len(recv.str) :
             /\ sink.buf[Place(recv.str, i)] = recv.str[i]
             /\ Special(recv.str[i]) => sink.buf[Place(recv.str, i) - 1] = 92
       /\ recv.str = ExampleStr
             => sink.buf = <<65, 92, 40, 66, 92, 41, 92, 92, 67>>

C2_Witness ==
    /\ Returned("String") /\ NeverFailing /\ res = "Ok"
    /\ recv.str = ExampleStr
    /\ Len(sink.buf) = 9

IsDigit(c) == c >= 48 /\ c <= 57

\* the number a sequence of decimal digits denotes
RECURSIVE Value(_)
Value(ds) ==
    IF ds = <<>> THEN 0 ELSE 10 * Value(SubSeq(ds, 1, Len(ds) - 1)) + (ds[Len(ds)] - 48)

\* ds is the decimal text of n: digits only, no leading zero, value n
DecimalOf(ds, n) ==
    /\ Len(ds) >= 1
    /\ \A i \in 1..Len(ds) : IsDigit(ds[i])
    /\ Len(ds) > 1 => ds[1] # 48
    /\ Value(ds) = n

\* C3: on a sink that never fails, serializing a PlainRef, or a Ref<T> around
\* it, returns Ok having written the decimal text of the id, one space, the
\* decimal text of the generation, one space and R; id 12, generation 0 gives
\* "12 0 R".
C3_Reference ==
    ((Returned("PlainRef") \/ Returned("Ref")) /\ NeverFailing)
    => /\ res = "Ok"
       /\ \E i \in 1..Len(sink.buf) :
             /\ DecimalOf(SubSeq(sink.buf, 1, i - 1), recv.ref.id)
             /\ sink.buf[i] = 32
             /\ DecimalOf(SubSeq(sink.buf, i + 1, Len(sink.buf) - 2), recv.ref.gen)
             /\ SubSeq(sink.buf, Len(sink.buf) - 1, Len(sink.buf)) = <<32, 82>>
       /\ recv.ref = MkPlainRef(12, 0) => sink.buf = <<49, 50, 32, 48, 32, 82>>

C3_Witness ==
    /\ Returned("Ref") /\ NeverFailing /\ res = "Ok"
    /\ recv.ref = MkPlainRef(2147483647, 65535)
    /\ Len(sink.buf) = 18

\* C4: MaybeRef::<T>::from_primitive of a Reference holding r returns
\* Ok(Reference(Ref::new(r))) with r's id and generation, and has called
\* neither T::from_primitive nor resolve, whatever T and the resolver.
C4_ReferenceNotFollowed ==
    (Returned("MaybeRef_from") /\ recv.tag = "Reference")
    => /\ conv.out.ok
       /\ conv.out.variant = "Reference"
       /\ Ref_get_inner([inner |-> conv.out.ref]) = recv.ref
       /\ conv.tcalls = <<>>
       /\ conv.resolves = <<>>

C4_Witness ==
    /\ Returned("MaybeRef_from") /\ recv = PReference(MkPlainRef(1, 0))
    /\ resolver = "Cyclic" /\ tkind = "Deref"
    /\ conv.out.ok

\* C5: MaybeRef::<T>::from_primitive of a Primitive p that is no Reference
\* calls T::from_primitive exactly once, on p and with the caller's resolver
\* (every resolve call made goes to that resolver), and returns Ok(Owned(v))
\* when T returns Ok(v) and T's error when T fails.
C5_OwnedDelegates ==
    (Returned("MaybeRef_from") /\ recv.tag # "Reference")
    => LET t == T_from_primitive(tkind, recv, resolver)
       IN  /\ Len(conv.tcalls) = 1
           /\ conv.tcalls[1].p = recv
           /\ conv.tcalls[1].resolver = resolver
           /\ \A i \in 1..Len(conv.resolves) : conv.resolves[i].resolver = resolver
           /\ conv.resolves = t.resolves
           /\ t.out.ok => conv.out = MkOk("Owned", NoRef, t.out.val)
           /\ ~t.out.ok => conv.out = t.out

C5_Witness ==
    /\ Returned("MaybeRef_from") /\ recv.tag = "Dictionary"
    /\ tkind = "Deref" /\ resolver = "Store"
    /\ Len(conv.resolves) = 1
    /\ conv.out.ok /\ conv.out.variant = "Owned" /\ conv.out.val = recv

SerializeOps ==
    {"PlainRef", "Ref", "MaybeRef", "i32", "f32", "bool", "str", "String",
     "Dictionary", "Primitive"}

\* C6: a serialize call during which a write to the sink failed, the write of
\* a dictionary key included, does not return Ok.
C6_WriteFailureSignalled ==
    (pc = "done" /\ op \in SerializeOps /\ sink.failed) => res # "Ok"

\* the first character of str above '~', or 0
FirstAbove(str) ==
    IF \E i \in 1..Len(str) : str[i] > 126
    THEN CHOOSE i \in 1..Len(str) :
            str[i] > 126 /\ \A j \in 1..(i - 1) : str[j] <= 126
    ELSE 0

\* C7 as stated: on a sink that never fails, str::serialize panics on a string
\* with a character outside printable ASCII (below the space character, DEL
\* or non-ASCII).
C7_PanicsOutsidePrintable ==
    (Returned("str") /\ NeverFailing
        /\ \E i \in 1..Len(recv.str) : ~Printable(recv.str[i]))
    => res = "Panic"

\* C7 as amended: str::serialize panics on reaching a character above '~'
\* (DEL and every non-ASCII character): it never returns Ok for a string
\* with one and writes no byte of it, and on a sink that never fails it panics
\* having written exactly the characters before it; a string without such a
\* character, control characters below the space character included, does not
\* panic and is written to the end.
C7_PanicsAboveTilde ==
    Returned("str")
    => LET f == FirstAbove(recv.str)
       IN  /\ f > 0 => /\ res # "Ok"
                       /\ \A i \in 1..Len(sink.buf) : sink.buf[i] <= 126
           /\ (f > 0 /\ NeverFailing)
                 => /\ res = "Panic"
                    /\ Len(sink.buf) = Place(recv.str, f - 1)
           /\ f = 0 => res # "Panic"
           /\ (f = 0 /\ NeverFailing)
                 => /\ res = "Ok"
                    /\ Len(sink.buf) = Place(recv.str, Len(recv.str))

C7_Witness ==
    /\ Returned("str") /\ NeverFailing /\ res = "Panic"
    /\ recv.str = <<65, 40, 127>>
    /\ sink.buf = <<65, 92, 40>>

\* C8: serializing the Name variant holding n writes / followed by n.
C8_NameHasSlash ==
    (Returned("Primitive") /\ recv.tag = "Name" /\ NeverFailing /\ res = "Ok")
        => sink.buf = <<47>> \o recv.str

\* C9: Ref::<T>::from_primitive makes no resolve call and returns the same
\* result with any two resolvers: Ok of a Ref whose get_inner() is r for a
\* Reference holding r, a type-mismatch error for every other variant.
C9_ResolverIndependent ==
    Returned("Ref_from")
    => /\ conv.out = conv2.out
       /\ conv.resolves = <<>> /\ conv2.resolves = <<>>
       /\ conv.tcalls = <<>> /\ conv2.tcalls = <<>>
       /\ recv.tag = "Reference"
             => /\ conv.out.ok /\ conv.out.variant = "Ref"
                /\ Ref_get_inner([inner |-> conv.out.ref]) = recv.ref
       /\ recv.tag # "Reference"
             => ~conv.out.ok /\ conv.out.err = "TypeMismatch"

C9_Witness ==
    /\ Returned("Ref_from") /\ recv = PReference(MkPlainRef(1, 0))
    /\ resolver = "NO_RESOLVE" /\ resolver2 = "Cyclic"
    /\ conv.out.ok /\ conv2.out.ok

\* C10: every call of NO_RESOLVE's resolve, whatever the PlainRef and however
\* many calls came before, returns a FollowReference error and no Primitive.
C10_NoResolveFails ==
    Returned("NoResolve")
    => /\ ~conv.out.ok
       /\ conv.out.err = "FollowReference"
       /\ conv.out.variant # "Primitive"

C10_Witness ==
    /\ Returned("NoResolve") /\ calls = 3
    /\ recv.ref = MkPlainRef(0, 65535)
    /\ ~conv.out.ok

===========================================================================
